---- MODULE Spec2Model ----
(***************************************************************************)
(* Mebior messenger: the Firestore collections "chats" and "messages", and *)
(* the App.tsx clients that write to them and listen on them.              *)
(*                                                                         *)
(* The repository holds several versions of App.tsx.  The variable build   *)
(* names the version every client of a behaviour runs:                     *)
(*   "A"  src/unnamed/part_003 lines 1-771                                 *)
(*   "B"  src/unnamed/part_003 lines 772-1502                              *)
(*   "C"  src/unnamed/part_005                                             *)
(* Each client runs at most one handler at a time; the handlers of         *)
(* different clients interleave at every await.  The snapshots a write     *)
(* causes reach the listeners before any client takes its next step.       *)
(* Document fields that no code reads (createdBy, userName, userAvatarUrl, *)
(* fileUrl) are left out of the documents.                                 *)
(***************************************************************************)
EXTENDS Integers, Sequences, FiniteSets, TLC

\* ---------------------------------------------------------------- bounds
MaxRooms == 2

MaxMsgs == 2

TicksPerSecond == 3

MaxAlerts == 2

MaxSubs == 6

MaxFailures == 1

\* ------------------------------------------------------------- constants
Clients == {"c1", "c2"}

Builds == {"A", "B", "C"}

NoChat == 0

NoTime == 0

ChatIds == 1..MaxRooms

MsgIds == 1..MaxMsgs

\* firebaseUser.uid of the user signed in at a client
Uid(c) == IF c = "c1" THEN "U1" ELSE "U2"

\* what the user may have typed in the message box / the prompt
Drafts == {<<>>, <<" ">>, <<"h">>, <<" ", "h">>}

Titles == {<<>>, <<"G">>}

\* e.target.files?.[0] : <<>> when no file was picked
Files == {<<>>, <<"f">>}

\* ---------------------------------------------------------------- state
VARIABLES
  build,          \* the App.tsx version in use
  now,            \* the server clock behind serverTimestamp()
  chats,          \* collection "chats": id -> document
  messages,       \* collection "messages": id -> document
  usedChats,      \* auto-ids already handed out by addDoc(chats)
  usedMsgs,       \* auto-ids already handed out by addDoc(messages)
  activeChatId,   \* per client: useState activeChatId
  chatsView,      \* per client: useState chats, the ids in list order
  chatsDirty,     \* "chats" was written since the listeners last heard
  messagesView,   \* per client: useState messages
  messagesDirty,  \* some client's messages list lags behind its subscription
  pc,             \* per client: the handler in flight and its locals
  nAppend,        \* per room: message documents added so far
  nDelete,        \* per room: documents handleDeleteMessage has deleted
  lastCall        \* history: the step just taken was a send or file change
                  \* that returned early, or a handleDeleteMessage that
                  \* deleted a message document

\* the observer session of the App.tsx versions that raise browser
\* notifications: src/src/App.tsx ("App"), src/unnamed/part_001 ("P1"),
\* src/unnamed/part_002 ("P2")
VARIABLES
  hidden,         \* document.hidden
  lastNotifiedId, \* lastNotifiedMessageIdRef.current / lastNotifiedMessageId
  alerts,         \* per message id: the Notifications raised for it
  listener,       \* the onSnapshot listener that feeds the notifications
  lastDelivery    \* history: the latest call of the listener's callback

\* the onSnapshot listeners of one session, for src/unnamed/part_001 ("P1")
\* and the two App.tsx of src/unnamed/part_003 ("A", "B")
VARIABLES
  signedIn,       \* a user is signed in (A, B: the component is mounted)
  subs,           \* the listeners the session has created and not
                  \* unsubscribed, in order
  lastEvent       \* history: what the feed handed to a listener in the
                  \* step just taken

watchVars == <<signedIn, subs, lastEvent>>

\* the profile form and the message box
VARIABLES
  users,          \* collection "users": uid -> document
  newMessage      \* useState newMessage: the draft in the message box

formVars == <<users, newMessage>>

\* the directory listener of each client and the snapshots on their way to it
VARIABLES
  session         \* client -> [on, first, last, inbox]

authVars == <<session>>

observerVars == <<hidden, lastNotifiedId, alerts, listener, lastDelivery,
                  watchVars, formVars, authVars>>

vars == <<build, now, chats, messages, usedChats, usedMsgs, activeChatId,
          chatsView, chatsDirty, messagesView, messagesDirty, pc, nAppend,
          nDelete, lastCall, observerVars>>

\* --------------------------------------------------------------- helpers
IsSpace(ch) == ch = " "

RECURSIVE TrimStart(_)
TrimStart(s) ==
  IF s = <<>> THEN s
  ELSE IF IsSpace(Head(s)) THEN TrimStart(Tail(s)) ELSE s

RECURSIVE TrimEnd(_)
TrimEnd(s) ==
  IF s = <<>> THEN s
  ELSE IF IsSpace(s[Len(s)]) THEN TrimEnd(SubSeq(s, 1, Len(s) - 1)) ELSE s

\* a trim that removes nothing
TrimNothing(s) == s

\* String.prototype.trim
Trim(s) == TrimEnd(TrimStart(s))

\* Timestamp.seconds
Seconds(t) == t \div TicksPerSecond

Max(a, b) == IF a >= b THEN a ELSE b

\* the element of the non-empty set S with the least (key, id)
MinBy(S, key) ==
  CHOOSE x \in S : \A y \in S : key[x] < key[y] \/ (key[x] = key[y] /\ x <= y)

\* the ids of S as a sequence ordered by key ascending, ties by document id
RECURSIVE OrderBy(_, _)
OrderBy(S, key) ==
  IF S = {} THEN <<>>
  ELSE LET x == MinBy(S, key) IN <<x>> \o OrderBy(S \ {x}, key)

\* the element of the non-empty set S with the greatest (key, id)
MaxBy(S, key) ==
  CHOOSE x \in S : \A y \in S : key[x] > key[y] \/ (key[x] = key[y] /\ x >= y)

\* the ids of S ordered by key descending, ties by document id descending
RECURSIVE OrderByDesc(_, _)
OrderByDesc(S, key) ==
  IF S = {} THEN <<>>
  ELSE LET x == MaxBy(S, key) IN <<x>> \o OrderByDesc(S \ {x}, key)

Idle == [op |-> "idle", chat |-> NoChat, msg |-> 0, cnt |-> 0,
         act |-> NoChat, first |-> NoChat, todo |-> {}]

\* values of lastCall
NoCall == [op |-> "", by |-> "", msg |-> 0, author |-> ""]

\* handleSendMessage or handleFileChange returned before its addDoc
Returned == [NoCall EXCEPT !.op = "returned"]

Deleted(c, m) ==
  [op |-> "deleted", by |-> Uid(c), msg |-> m.id, author |-> m.userId]

AllIdle == \A c \in Clients : pc[c] = Idle

\* ------------------------------------------------------- store primitives
\* the auto-ids addDoc may hand out next.  Document ids are random; only
\* build B lists documents in document-id order (its queries have no
\* orderBy), so the other builds take the ids in sequence
AutoIds(ids, used) ==
  IF ids \ used = {} THEN {}
  ELSE IF build = "B" THEN ids \ used
  ELSE {CHOOSE id \in ids \ used : \A x \in ids \ used : id <= x}

\* a delete that keeps the document and clears its createdAt
Tombstoned(coll, id) ==
  [x \in DOMAIN coll |->
     IF x = id THEN [coll[x] EXCEPT !.createdAt = NoTime] ELSE coll[x]]

\* deleteDoc: removes the document; succeeds when it does not exist
Without(coll, id) == [x \in DOMAIN coll \ {id} |-> coll[x]]

\* ------------------------------------------------------------- queries
\* where("chatId", "==", r)
MsgsOf(r) == {id \in DOMAIN messages : messages[id].chatId = r}

MsgCreatedAt == [id \in DOMAIN messages |-> messages[id].createdAt]

MsgSeconds == [id \in DOMAIN messages |-> Seconds(messages[id].createdAt)]

\* the object the snapshot callback pushes for message document id
MsgItem(id) ==
  [id |-> id, chatId |-> messages[id].chatId, text |-> messages[id].text,
   createdAt |-> messages[id].createdAt, userId |-> messages[id].userId,
   fileName |-> messages[id].fileName]

\* a stream whose order depends on what else the store holds
MessagesQueryUnsettled(r) ==
  LET ids == OrderBy(MsgsOf(r), MsgCreatedAt)
      n == Len(ids)
  IN IF Cardinality(DOMAIN chats) = MaxRooms
     THEN [i \in 1..n |-> MsgItem(ids[i])]
     ELSE [i \in 1..n |-> MsgItem(ids[n + 1 - i])]

\* builds A, C: query(where chatId == r, orderBy createdAt asc)
\* build B: query(where chatId == r), then list.sort by createdAt.seconds,
\* a stable sort over the document-id order of the query
MessagesQuery(r) ==
  LET ids == IF build = "B" THEN OrderBy(MsgsOf(r), MsgSeconds)
             ELSE OrderBy(MsgsOf(r), MsgCreatedAt)
  IN [i \in 1..Len(ids) |-> MsgItem(ids[i])]

ChatLastMessageAt == [id \in DOMAIN chats |-> chats[id].lastMessageAt]

\* build B sorts by bTs - aTs with Ts = lastMessageAt?.seconds ?? 0
ChatNegSeconds ==
  [id \in DOMAIN chats |->
     IF chats[id].lastMessageAt = NoTime THEN 0
     ELSE 0 - Seconds(chats[id].lastMessageAt)]

\* builds A, C: query(orderBy lastMessageAt desc)
\* build B: query(chatsCol), then list.sort, a stable sort over the
\* document-id order of the query.  The list is kept as the chats' ids.
ChatsQuery ==
  IF build = "B" THEN OrderBy(DOMAIN chats, ChatNegSeconds)
  ELSE OrderByDesc(DOMAIN chats, ChatLastMessageAt)

\* ------------------------------------------------------------ React state
\* build A, effect on [chats, activeChatId]: select the first chat when none
\* is selected
SelectFirst(list, act) ==
  IF act = NoChat /\ Len(list) > 0 THEN list[1] ELSE act

\* effect on [activeChatId]: setMessages([]) when no chat is active; the
\* list is otherwise left as it is until the new subscription delivers
MessagesAfter(c, act) == IF act = NoChat THEN <<>> ELSE messagesView[c]

\* setActiveChatId(act) at client c followed by the effects it triggers
SetActive(c, act) ==
  LET a == IF build = "A" THEN SelectFirst(chatsView[c], act) ELSE act
  IN /\ activeChatId' = [activeChatId EXCEPT ![c] = a]
     /\ messagesView' = [messagesView EXCEPT ![c] = MessagesAfter(c, act)]

\* the first chat of the list other than r: remaining[0]?.id ?? null
RECURSIVE FirstOther(_, _)
FirstOther(list, r) ==
  IF list = <<>> THEN NoChat
  ELSE IF Head(list) # r THEN Head(list)
  ELSE FirstOther(Tail(list), r)

ViewIds(list) == {list[i] : i \in 1..Len(list)}

\* ------------------------------------------------------------------ Init
\* no listener: none is open and none has delivered
NoListener == [open |-> FALSE, room |-> NoChat, first |-> FALSE, last |-> <<>>]

NoDelivery == [kind |-> "none", alerted |-> {}, before |-> {}]

NoEvent == [kind |-> "none", target |-> "none", held |-> FALSE]

\* a client whose user has not signed in
NoSession == [on |-> FALSE, first |-> FALSE, last |-> <<>>, inbox |-> <<>>]

\* the users' documents before any profile is edited
NewUsers ==
  [u \in {Uid(c) : c \in Clients} |-> [name |-> <<"n">>, avatarUrl |-> <<>>]]

ObserverInit ==
  /\ hidden = FALSE
  /\ lastNotifiedId = 0
  /\ alerts = [m \in MsgIds |-> 0]
  /\ listener = NoListener
  /\ lastDelivery = NoDelivery
  /\ signedIn = FALSE
  /\ subs = <<>>
  /\ lastEvent = NoEvent
  /\ users = NewUsers
  /\ newMessage = <<>>
  /\ session = [c \in Clients |-> NoSession]

Init ==
  /\ build \in Builds
  /\ ObserverInit
  /\ now = 1
  /\ chats = <<>>
  /\ messages = <<>>
  /\ usedChats = {}
  /\ usedMsgs = {}
  /\ activeChatId = [c \in Clients |-> NoChat]
  /\ chatsView = [c \in Clients |-> <<>>]
  /\ chatsDirty = TRUE
  /\ messagesView = [c \in Clients |-> <<>>]
  /\ messagesDirty = FALSE
  /\ pc = [c \in Clients |-> Idle]
  /\ nAppend = [r \in ChatIds |-> 0]
  /\ nDelete = [r \in ChatIds |-> 0]
  /\ lastCall = NoCall

\* ------------------------------------------------------------ listeners
\* the activeChatId the chats callback of client c leaves behind.  Build A
\* selects in a separate effect that sees the current activeChatId; builds
\* B, C test the activeChatId the effect closed over when it was created,
\* which is null
ActiveAfterChats(c, list) ==
  IF build = "A" THEN SelectFirst(list, activeChatId[c])
  ELSE IF Len(list) > 0 THEN list[1] ELSE activeChatId[c]

\* the messages list of client c lags behind its subscription: it differs
\* from MessagesQuery(activeChatId[c]).  Message documents are never
\* updated and ids never reused, so the two lists differ exactly when their
\* ids do
MessagesBehind(c) ==
  /\ activeChatId[c] # NoChat
  /\ {messagesView[c][i].id : i \in 1..Len(messagesView[c])}
       # MsgsOf(activeChatId[c])

\* the step leaves a messages snapshot to be delivered
Lagging == messagesDirty' = \E c \in Clients : MessagesBehind(c)'

\* chats subscription: the onSnapshot callback of every client runs
OnChatsSnapshot ==
  /\ chatsDirty
  /\ chatsDirty' = FALSE
  /\ chatsView' = [c \in Clients |-> ChatsQuery]
  /\ activeChatId' = [c \in Clients |-> ActiveAfterChats(c, ChatsQuery)]
  /\ UNCHANGED <<observerVars, build, now, chats, messages, usedChats, usedMsgs,
                 messagesView, pc, nAppend, nDelete, lastCall>>
  /\ Lagging

\* messages subscription of the active chat: the onSnapshot callback runs at
\* every client whose query result has changed
OnMessagesSnapshot ==
  /\ ~chatsDirty
  /\ messagesDirty
  /\ messagesDirty' = FALSE
  /\ messagesView' = [c \in Clients |->
                        IF activeChatId[c] # NoChat
                        THEN MessagesQuery(activeChatId[c])
                        ELSE messagesView[c]]
  /\ UNCHANGED <<observerVars, build, now, chats, messages, usedChats, usedMsgs,
                 activeChatId, chatsView, chatsDirty, pc, nAppend, nDelete,
                 lastCall>>

\* no snapshot is waiting to be delivered to any client; the clicks and the
\* handlers' steps wait for it
Synced == ~chatsDirty /\ ~messagesDirty

\* click on a chat of the list: setActiveChatId(chat.id)
SelectChat(c, r) ==
  /\ Synced
  /\ r \in ViewIds(chatsView[c])
  /\ r # activeChatId[c]
  /\ SetActive(c, r)
  /\ lastCall' = NoCall
  /\ UNCHANGED <<observerVars, build, now, chats, messages, usedChats, usedMsgs,
                 chatsView, chatsDirty, pc, nAppend, nDelete>>
  /\ Lagging

\* --------------------------------------------------------- handleCreateChat
\* the document handleCreateChat adds
NewChat(title) ==
  [title |-> title, createdAt |-> now,
   lastMessageAt |-> IF build = "B" THEN NoTime ELSE now,
   messageCount |-> 0]

\* prompt, "if (!title) return", addDoc(chats)
handleCreateChat(c, title) ==
  /\ pc[c] = Idle
  /\ Synced
  /\ IF title = <<>>
     THEN /\ lastCall' = NoCall
          /\ UNCHANGED <<now, chats, usedChats, pc, chatsDirty>>
     ELSE /\ \E id \in AutoIds(ChatIds, usedChats) :
               /\ chats' = chats @@ (id :> NewChat(title))
               /\ usedChats' = usedChats \cup {id}
               /\ pc' = [pc EXCEPT ![c] = [Idle EXCEPT !.op = "create_set",
                                                       !.chat = id]]
          /\ now' = now + 1
          /\ chatsDirty' = TRUE
          /\ lastCall' = NoCall
  /\ UNCHANGED <<observerVars, build, messages, usedMsgs, activeChatId, chatsView,
                 messagesView, nAppend, nDelete>>
  /\ UNCHANGED messagesDirty

\* after the await: setActiveChatId(chatDoc.id)
CreateChatDone(c) ==
  /\ pc[c].op = "create_set"
  /\ Synced
  /\ SetActive(c, pc[c].chat)
  /\ pc' = [pc EXCEPT ![c] = Idle]
  /\ lastCall' = NoCall
  /\ UNCHANGED <<observerVars, build, now, chats, messages, usedChats, usedMsgs,
                 chatsView, chatsDirty, nAppend, nDelete>>
  /\ Lagging

\* -------------------------------------- handleSendMessage, handleFileChange
\* the document the two handlers add to "messages"
NewMessage(c, text, fileName) ==
  [chatId |-> activeChatId[c], text |-> text, fileName |-> fileName,
   createdAt |-> now, userId |-> Uid(c)]

\* addDoc(messagesCol, doc), then on to the chat's metadata
AddMessage(c, doc) ==
  /\ \E id \in AutoIds(MsgIds, usedMsgs) :
       /\ messages' = messages @@ (id :> doc)
       /\ usedMsgs' = usedMsgs \cup {id}
       /\ pc' = [pc EXCEPT ![c] = [Idle EXCEPT !.op = "send_get",
                                               !.chat = doc.chatId,
                                               !.msg = id]]
  /\ now' = now + 1
  /\ nAppend' = [nAppend EXCEPT ![doc.chatId] = @ + 1]

\* "if (!activeChatId) return; trimmed = newMessage.trim();
\*  if (!trimmed) return;" then addDoc
handleSendMessage(c, text) ==
  /\ pc[c] = Idle
  /\ Synced
  /\ activeChatId[c] # NoChat
  /\ IF Trim(text) = <<>>
     THEN /\ lastCall' = Returned
          /\ UNCHANGED <<now, messages, usedMsgs, pc, nAppend>>
     ELSE /\ AddMessage(c, NewMessage(c, Trim(text), <<>>))
          /\ lastCall' = NoCall
  /\ UNCHANGED <<observerVars, build, chats, usedChats, activeChatId, chatsView,
                 chatsDirty, messagesView, nDelete>>
  /\ Lagging

\* "if (!activeChatId) return; if (!file) return;" upload, then addDoc
handleFileChange(c, file) ==
  /\ pc[c] = Idle
  /\ Synced
  /\ activeChatId[c] # NoChat
  /\ IF file = <<>>
     THEN /\ lastCall' = Returned
          /\ UNCHANGED <<now, messages, usedMsgs, pc, nAppend>>
     ELSE /\ AddMessage(c, NewMessage(c, <<>>, file))
          /\ lastCall' = NoCall
  /\ UNCHANGED <<observerVars, build, chats, usedChats, activeChatId, chatsView,
                 chatsDirty, messagesView, nDelete>>
  /\ Lagging

\* chatSnap = await getDoc(chatDocRef);
\* currentCount = chatSnap.exists() ? (messageCount || 0) : 0
SendGetDoc(c) ==
  /\ pc[c].op = "send_get"
  /\ Synced
  /\ LET r == pc[c].chat
         currentCount == IF r \in DOMAIN chats THEN chats[r].messageCount
                         ELSE 0
     IN pc' = [pc EXCEPT ![c] = [@ EXCEPT !.op = "send_upd",
                                          !.cnt = currentCount]]
  /\ lastCall' = NoCall
  /\ UNCHANGED <<observerVars, build, now, chats, messages, usedChats, usedMsgs,
                 activeChatId, chatsView, chatsDirty, messagesView, nAppend,
                 nDelete>>
  /\ UNCHANGED messagesDirty

\* a counter update that writes back the value read
NotIncremented(currentCount) == currentCount

\* the new value of the counter written by the send handlers
Incremented(currentCount) == currentCount + 1

\* an update that writes the counter only
ChatAfterSendUnstamped(doc, currentCount) ==
  [doc EXCEPT !.messageCount = Incremented(currentCount)]

\* the chat document after updateDoc(chatDocRef, {lastMessageAt:
\* serverTimestamp(), messageCount: currentCount + 1})
ChatAfterSend(doc, currentCount) ==
  [doc EXCEPT !.lastMessageAt = now,
              !.messageCount = Incremented(currentCount)]

\* await updateDoc(chatDocRef, {lastMessageAt: serverTimestamp(),
\* messageCount: currentCount + 1}); updateDoc rejects when the document
\* does not exist and the handler's catch ends the call
SendUpdateDoc(c) ==
  /\ pc[c].op = "send_upd"
  /\ Synced
  /\ LET r == pc[c].chat
     IN IF r \in DOMAIN chats
        THEN /\ chats' = [chats EXCEPT ![r] = ChatAfterSend(@, pc[c].cnt)]
             /\ now' = now + 1
             /\ chatsDirty' = TRUE
        ELSE UNCHANGED <<chats, now, chatsDirty>>
  /\ pc' = [pc EXCEPT ![c] = Idle]
  /\ lastCall' = NoCall
  /\ UNCHANGED <<observerVars, build, messages, usedChats, usedMsgs, activeChatId,
                 chatsView, messagesView, nAppend, nDelete>>
  /\ UNCHANGED messagesDirty

\* ------------------------------------------------------ handleDeleteMessage
\* build A renders the delete button only when m.userId === firebaseUser.uid;
\* build C renders it on every message; build B has no such button
CanDeleteMessage(c, m) ==
  CASE build = "A" -> m.userId = Uid(c)
    [] build = "C" -> TRUE
    [] OTHER -> FALSE

\* click on the delete button of message m of the list, confirmed:
\* await deleteDoc(doc(db, "messages", m.id))
handleDeleteMessage(c, m) ==
  /\ pc[c] = Idle
  /\ Synced
  /\ CanDeleteMessage(c, m)
  /\ messages' = Without(messages, m.id)
  /\ nDelete' = [nDelete EXCEPT ![m.chatId] =
                    IF m.id \in DOMAIN messages THEN @ + 1 ELSE @]
  \* build C ends here; build A goes on to the chat's counter
  /\ pc' = [pc EXCEPT ![c] =
              IF build = "A"
              THEN [Idle EXCEPT !.op = "del_get", !.chat = m.chatId]
              ELSE Idle]
  /\ lastCall' = Deleted(c, m)
  /\ UNCHANGED <<observerVars, build, now, chats, usedChats, usedMsgs, activeChatId,
                 chatsView, chatsDirty, messagesView, nAppend>>
  /\ Lagging

\* chatSnap = await getDoc(chatDocRef); if (chatSnap.exists())
\* currentCount = messageCount ?? 1
DeleteGetDoc(c) ==
  /\ pc[c].op = "del_get"
  /\ Synced
  /\ LET r == pc[c].chat
     IN pc' = [pc EXCEPT ![c] =
                 IF r \in DOMAIN chats
                 THEN [@ EXCEPT !.op = "del_upd",
                                !.cnt = chats[r].messageCount]
                 ELSE Idle]
  /\ lastCall' = NoCall
  /\ UNCHANGED <<observerVars, build, now, chats, messages, usedChats, usedMsgs,
                 activeChatId, chatsView, chatsDirty, messagesView, nAppend,
                 nDelete>>
  /\ UNCHANGED messagesDirty

\* Math.max(0, currentCount - 1)
Decremented(currentCount) == Max(0, currentCount - 1)

\* await updateDoc(chatDocRef, {messageCount: Math.max(0, currentCount - 1)})
DeleteUpdateDoc(c) ==
  /\ pc[c].op = "del_upd"
  /\ Synced
  /\ LET r == pc[c].chat
     IN IF r \in DOMAIN chats
        THEN /\ chats' = [chats EXCEPT ![r].messageCount =
                                          Decremented(pc[c].cnt)]
             /\ chatsDirty' = TRUE
        ELSE UNCHANGED <<chats, chatsDirty>>
  /\ pc' = [pc EXCEPT ![c] = Idle]
  /\ lastCall' = NoCall
  /\ UNCHANGED <<observerVars, build, now, messages, usedChats, usedMsgs, activeChatId,
                 chatsView, messagesView, nAppend, nDelete>>
  /\ UNCHANGED messagesDirty

\* --------------------------------------------------------- handleDeleteChat
\* click on the delete button of chat r of the list, confirmed.  The handler
\* closes over activeChatId and chats of the render it was created in.
\* build A: snap = await getDocs(query(where chatId == r))
\* builds B, C: await deleteDoc(doc(db, "chats", r))
handleDeleteChat(c, r) ==
  /\ pc[c] = Idle
  /\ Synced
  /\ r \in ViewIds(chatsView[c])
  /\ LET locals == [Idle EXCEPT !.chat = r, !.act = activeChatId[c],
                                !.first = FirstOther(chatsView[c], r)]
     IN CASE build = "A" ->
               /\ pc' = [pc EXCEPT ![c] = [locals EXCEPT !.op = "dc_msgs",
                                                       !.todo = MsgsOf(r)]]
               /\ UNCHANGED <<chats, chatsDirty>>
          [] build = "B" ->
               /\ chats' = Without(chats, r)
               /\ chatsDirty' = TRUE
               /\ pc' = [pc EXCEPT ![c] = [locals EXCEPT !.op = "dc_snap"]]
          [] OTHER ->
               /\ chats' = Without(chats, r)
               /\ chatsDirty' = TRUE
               /\ pc' = [pc EXCEPT ![c] = [locals EXCEPT !.op = "dc_local"]]
  /\ lastCall' = NoCall
  /\ UNCHANGED <<observerVars, build, now, messages, usedChats, usedMsgs, activeChatId,
                 chatsView, messagesView, nAppend, nDelete>>
  /\ UNCHANGED messagesDirty

\* build B: the first snapshot of onSnapshot(query(where chatId == r))
\* resolves the promise
DeleteChatSnapshot(c) ==
  /\ pc[c].op = "dc_snap"
  /\ Synced
  /\ pc' = [pc EXCEPT ![c] = [@ EXCEPT !.op = "dc_msgs",
                                       !.todo = MsgsOf(pc[c].chat)]]
  /\ lastCall' = NoCall
  /\ UNCHANGED <<observerVars, build, now, chats, messages, usedChats, usedMsgs,
                 activeChatId, chatsView, chatsDirty, messagesView, nAppend,
                 nDelete>>
  /\ UNCHANGED messagesDirty

\* builds A, B: one of the deleteDoc(doc(db, "messages", d.id)) of
\* Promise.all
DeleteChatMessage(c, id) ==
  /\ pc[c].op = "dc_msgs"
  /\ Synced
  /\ id \in pc[c].todo
  /\ messages' = Without(messages, id)
  /\ pc' = [pc EXCEPT ![c] = [@ EXCEPT !.todo = @ \ {id}]]
  /\ lastCall' = NoCall
  /\ UNCHANGED <<observerVars, build, now, chats, usedChats, usedMsgs, activeChatId,
                 chatsView, chatsDirty, messagesView, nAppend, nDelete>>
  /\ Lagging

\* build A, Promise.all has resolved: await deleteDoc(doc(db, "chats", r))
DeleteChatDoc(c) ==
  /\ build = "A"
  /\ Synced
  /\ pc[c].op = "dc_msgs"
  /\ pc[c].todo = {}
  /\ chats' = Without(chats, pc[c].chat)
  /\ chatsDirty' = TRUE
  /\ pc' = [pc EXCEPT ![c] = [@ EXCEPT !.op = "dc_local"]]
  /\ lastCall' = NoCall
  /\ UNCHANGED <<observerVars, build, now, messages, usedChats, usedMsgs, activeChatId,
                 chatsView, messagesView, nAppend, nDelete>>
  /\ UNCHANGED messagesDirty

\* the awaits of handleDeleteChat are over
DeleteChatAwaited(c) ==
  \/ pc[c].op = "dc_local"
  \/ build = "B" /\ pc[c].op = "dc_msgs" /\ pc[c].todo = {}

\* "if (activeChatId === chatId)": build A switches to the first remaining
\* chat of the list it closed over; builds B, C setActiveChatId(null) and
\* setMessages([])
DeleteChatDone(c) ==
  /\ Synced
  /\ DeleteChatAwaited(c)
  /\ IF pc[c].act = pc[c].chat
     THEN SetActive(c, IF build = "A" THEN pc[c].first ELSE NoChat)
     ELSE UNCHANGED <<activeChatId, messagesView>>
  /\ pc' = [pc EXCEPT ![c] = Idle]
  /\ lastCall' = NoCall
  /\ UNCHANGED <<observerVars, build, now, chats, messages, usedChats, usedMsgs,
                 chatsView, chatsDirty, nAppend, nDelete>>
  /\ Lagging

\* ------------------------------------------------------------------- Next
\* the steps the three builds share
CommonStep(c) ==
  \/ \E r \in ChatIds : SelectChat(c, r)
  \/ \E title \in Titles : handleCreateChat(c, title)
  \/ CreateChatDone(c)
  \/ \E text \in Drafts : handleSendMessage(c, text)
  \/ \E file \in Files : handleFileChange(c, file)
  \/ SendGetDoc(c)
  \/ SendUpdateDoc(c)
  \/ \E r \in ChatIds : handleDeleteChat(c, r)
  \/ DeleteChatDone(c)

\* src/unnamed/part_003, first App.tsx
NextA ==
  \/ OnChatsSnapshot
  \/ OnMessagesSnapshot
  \/ \E c \in Clients :
       \/ CommonStep(c)
       \/ \E i \in 1..Len(messagesView[c]) :
            handleDeleteMessage(c, messagesView[c][i])
       \/ DeleteGetDoc(c)
       \/ DeleteUpdateDoc(c)
       \/ \E id \in MsgIds : DeleteChatMessage(c, id)
       \/ DeleteChatDoc(c)

\* src/unnamed/part_003, second App.tsx
NextB ==
  \/ OnChatsSnapshot
  \/ OnMessagesSnapshot
  \/ \E c \in Clients :
       \/ CommonStep(c)
       \/ DeleteChatSnapshot(c)
       \/ \E id \in MsgIds : DeleteChatMessage(c, id)

\* src/unnamed/part_005
NextC ==
  \/ OnChatsSnapshot
  \/ OnMessagesSnapshot
  \/ \E c \in Clients :
       \/ CommonStep(c)
       \/ \E i \in 1..Len(messagesView[c]) :
            handleDeleteMessage(c, messagesView[c][i])

Next ==
  \/ build = "A" /\ NextA
  \/ build = "B" /\ NextB
  \/ build = "C" /\ NextC

Spec == Init /\ [][Next]_vars

InitA == Init /\ build = "A"

SpecA == InitA /\ [][NextA]_vars

InitB == Init /\ build = "B"

SpecB == InitB /\ [][NextB]_vars

InitC == Init /\ build = "C"

SpecC == InitC /\ [][NextC]_vars

\* build A with handler calls that do not overlap: a call starts only when
\* no other client has one in flight
Sequential == Cardinality({c \in Clients : pc'[c] # Idle}) <= 1

NextASeq == NextA /\ Sequential

SpecASeq == InitA /\ [][NextASeq]_vars

\* build B with handler calls that do not overlap
NextBSeq == NextB /\ Sequential

SpecBSeq == InitB /\ [][NextBSeq]_vars

\* ------------------------------------------------------------- profile
\* the clients whose user opens the profile form
ProfileEditors == {"c1"}

\* what the user may have typed as the name in the profile form
ProfileNames == {<<"n">>, <<"m">>}

\* handleSaveProfile: updateDoc(doc(db, "users", profile.id), {name, ...})
\* and setProfile
handleSaveProfile(c, name) ==
  /\ pc[c] = Idle
  /\ Synced
  /\ users' = [users EXCEPT ![Uid(c)] = [@ EXCEPT !.name = name]]
  /\ lastCall' = NoCall
  /\ UNCHANGED <<hidden, lastNotifiedId, alerts, listener, lastDelivery,
                 watchVars, newMessage, authVars>>
  /\ UNCHANGED <<build, now, chats, messages, usedChats, usedMsgs,
                 activeChatId, chatsView, chatsDirty, messagesView,
                 messagesDirty, pc, nAppend, nDelete>>

\* handleAvatarChange: "if (!file) return", uploadBytes, getDownloadURL,
\* updateDoc(doc(db, "users", profile.id), {avatarUrl: url}) and setProfile
handleAvatarChange(c, file) ==
  /\ pc[c] = Idle
  /\ Synced
  /\ users' = IF file = <<>> THEN users
              ELSE [users EXCEPT ![Uid(c)] = [@ EXCEPT !.avatarUrl = <<"u">>]]
  /\ lastCall' = NoCall
  /\ UNCHANGED <<hidden, lastNotifiedId, alerts, listener, lastDelivery,
                 watchVars, newMessage, authVars>>
  /\ UNCHANGED <<build, now, chats, messages, usedChats, usedMsgs,
                 activeChatId, chatsView, chatsDirty, messagesView,
                 messagesDirty, pc, nAppend, nDelete>>

\* the first App.tsx of src/unnamed/part_003 with its profile form, one
\* handler at a time
NextAFrame ==
  /\ \/ NextA
     \/ \E c \in ProfileEditors : \E name \in ProfileNames :
          handleSaveProfile(c, name)
     \/ \E c \in ProfileEditors : \E file \in Files :
          handleAvatarChange(c, file)
  /\ Sequential

SpecAFrame == InitA /\ [][NextAFrame]_vars

\* ------------------------------------------------------------- mentions
\* the builds with a mention handler: the first App.tsx of part_003, App.tsx
\* and part_002
Mentioners == {"A", "App", "P2"}

\* the names a mention is made of, and what the user can type in the box
MentionNames == {"a", "b"}
Typed == {"@", "a", "b", " "}
MaxDraft == 7

\* `@${name} `
MentionToken(name) == <<"@", name, " ">>

\* String.prototype.includes
Includes(s, t) ==
  \E i \in 0..(Len(s) - Len(t)) : SubSeq(s, i + 1, i + Len(t)) = t

\* part_003 handleMention:
\* prev.includes(mention) ? prev : (prev ? prev + " " : "") + mention
MentionA(prev, name) ==
  IF Includes(prev, MentionToken(name)) THEN prev
  ELSE (IF prev # <<>> THEN prev \o <<" ">> ELSE <<>>) \o MentionToken(name)

\* App.tsx handleMention: prev ? `${prev} @${name}` : `@${name} `
MentionApp(prev, name) ==
  IF prev # <<>> THEN prev \o <<" ", "@", name>> ELSE <<"@", name, " ">>

\* part_002 handleMentionUser: base = prev.trimEnd(), `${prefix}@${name} `
MentionP2(prev, name) ==
  LET base == TrimEnd(prev)
      prefix == IF base # <<>> THEN base \o <<" ">> ELSE <<>>
  IN prefix \o <<"@", name, " ">>

InsertMention(prev, name) ==
  CASE build = "A" -> MentionA(prev, name)
    [] build = "App" -> MentionApp(prev, name)
    [] OTHER -> MentionP2(prev, name)

InitMention ==
  /\ build \in Mentioners
  /\ hidden = FALSE
  /\ lastNotifiedId = 0
  /\ alerts = [m \in MsgIds |-> 0]
  /\ listener = NoListener
  /\ lastDelivery = NoDelivery
  /\ signedIn = TRUE
  /\ subs = <<>>
  /\ lastEvent = NoEvent
  /\ users = NewUsers
  /\ newMessage = <<>>
  /\ session = [c \in Clients |-> NoSession]
  /\ now = 1
  /\ chats = <<>>
  /\ messages = <<>>
  /\ usedChats = {}
  /\ usedMsgs = {}
  /\ activeChatId = [c \in Clients |-> NoChat]
  /\ chatsView = [c \in Clients |-> <<>>]
  /\ chatsDirty = FALSE
  /\ messagesView = [c \in Clients |-> <<>>]
  /\ messagesDirty = FALSE
  /\ pc = [c \in Clients |-> Idle]
  /\ nAppend = [r \in ChatIds |-> 0]
  /\ nDelete = [r \in ChatIds |-> 0]
  /\ lastCall = NoCall

\* onChange of the message box: setNewMessage(e.target.value)
TypeDraft(ch) ==
  /\ Len(newMessage) < MaxDraft
  /\ newMessage' = Append(newMessage, ch)
  /\ lastEvent' = [kind |-> "typed", target |-> ch, held |-> FALSE]
  /\ UNCHANGED <<hidden, lastNotifiedId, alerts, listener, lastDelivery,
                 signedIn, subs, users, authVars>>
  /\ UNCHANGED <<build, now, chats, messages, usedChats, usedMsgs,
                 activeChatId, chatsView, chatsDirty, messagesView,
                 messagesDirty, pc, nAppend, nDelete, lastCall>>

\* handleMention / handleMentionUser: a click on a user's name
handleMention(name) ==
  /\ Len(InsertMention(newMessage, name)) <= MaxDraft
  /\ newMessage' = InsertMention(newMessage, name)
  /\ lastEvent' = [kind |-> "mention", target |-> name, held |-> FALSE]
  /\ UNCHANGED <<hidden, lastNotifiedId, alerts, listener, lastDelivery,
                 signedIn, subs, users, authVars>>
  /\ UNCHANGED <<build, now, chats, messages, usedChats, usedMsgs,
                 activeChatId, chatsView, chatsDirty, messagesView,
                 messagesDirty, pc, nAppend, nDelete, lastCall>>

NextMention ==
  \/ \E ch \in Typed : TypeDraft(ch)
  \/ \E name \in MentionNames : handleMention(name)

SpecMention == InitMention /\ [][NextMention]_vars

\* ----------------------------------------------------------- default room
\* the builds that create the general room from the directory listener:
\* App.tsx, the auth effect of part_001 and part_002
Defaulters == {"App", "P1", "P2"}

\* GENERAL_CHAT_NAME, "Общий чат"
GeneralName == <<"G">>

\* the names typed for other rooms
OtherNames == {<<"X">>}

\* snapshots the server has sent to a client and the client has not run yet
MaxInbox == 2

\* query(chatsRef, orderBy("createdAt", "asc"))
ChatsByCreatedAt ==
  OrderBy(DOMAIN chats, [id \in DOMAIN chats |-> chats[id].createdAt])

\* addDoc(chatsRef, {name, createdAt: serverTimestamp(), ...})
NewRoomDoc(name) ==
  [title |-> name, createdAt |-> now, lastMessageAt |-> NoTime,
   messageCount |-> 0]

\* what the callback looks at before it adds the general room:
\* App.tsx "snap.empty", part_001 "list.length === 0",
\* part_002 "!arr.some((c) => c.name === GENERAL_CHAT_NAME)"
HasGeneral(list) ==
  IF build = "P2"
  THEN \E i \in DOMAIN list : chats[list[i]].title = GeneralName
  ELSE Len(list) > 0

\* part_002: arr.find((c) => c.name === GENERAL_CHAT_NAME) ?? arr[0];
\* App.tsx, part_001: list[0]
FirstChoice(list) ==
  IF build = "P2" /\ \E i \in DOMAIN list : chats[list[i]].title = GeneralName
  THEN list[CHOOSE i \in DOMAIN list :
              /\ chats[list[i]].title = GeneralName
              /\ \A j \in 1..(i - 1) : chats[list[j]].title # GeneralName]
  ELSE list[1]

InitDefault ==
  /\ build \in Defaulters
  /\ hidden = FALSE
  /\ lastNotifiedId = 0
  /\ alerts = [m \in MsgIds |-> 0]
  /\ listener = NoListener
  /\ lastDelivery = NoDelivery
  /\ signedIn = FALSE
  /\ subs = <<>>
  /\ lastEvent = NoEvent
  /\ users = NewUsers
  /\ newMessage = <<>>
  /\ session = [c \in Clients |-> NoSession]
  /\ now = 1
  /\ chats = <<>>
  /\ messages = <<>>
  /\ usedChats = {}
  /\ usedMsgs = {}
  /\ activeChatId = [c \in Clients |-> NoChat]
  /\ chatsView = [c \in Clients |-> <<>>]
  /\ chatsDirty = FALSE
  /\ messagesView = [c \in Clients |-> <<>>]
  /\ messagesDirty = FALSE
  /\ pc = [c \in Clients |-> Idle]
  /\ nAppend = [r \in ChatIds |-> 0]
  /\ nDelete = [r \in ChatIds |-> 0]
  /\ lastCall = NoCall

defaultFrame ==
  <<hidden, lastNotifiedId, alerts, listener, lastDelivery, watchVars,
    formVars, build, messages, usedMsgs, chatsDirty, messagesView,
    messagesDirty, nAppend, nDelete, lastCall>>

\* the effect on [firebaseUser] (part_001: onAuthStateChanged) registers
\* onSnapshot on the directory
SignInClient(c) ==
  /\ ~session[c].on
  /\ session' = [session EXCEPT ![c] = [NoSession EXCEPT !.on = TRUE,
                                                         !.first = TRUE]]
  /\ UNCHANGED <<now, chats, usedChats, activeChatId, chatsView, pc>>
  /\ UNCHANGED defaultFrame

\* the server sends the directory to a listener: once after registration,
\* then whenever the result of the query has changed
ServerSends(c) ==
  /\ session[c].on
  /\ session[c].first \/ session[c].last # ChatsByCreatedAt
  /\ Len(session[c].inbox) < MaxInbox
  /\ session' = [session EXCEPT ![c] =
                   [@ EXCEPT !.first = FALSE, !.last = ChatsByCreatedAt,
                             !.inbox = Append(@, ChatsByCreatedAt)]]
  /\ UNCHANGED <<now, chats, usedChats, activeChatId, chatsView, pc>>
  /\ UNCHANGED defaultFrame

\* the onSnapshot callback up to its await: without a general room it calls
\* addDoc; otherwise setChats and, activeChatId being null in the closure,
\* setActiveChatId
DirectoryCallback(c) ==
  /\ pc[c] = Idle
  /\ session[c].inbox # <<>>
  /\ LET list == Head(session[c].inbox)
     IN /\ session' = [session EXCEPT ![c].inbox = Tail(@)]
        /\ IF HasGeneral(list)
           THEN /\ chatsView' = [chatsView EXCEPT ![c] = list]
                /\ activeChatId' =
                     [activeChatId EXCEPT ![c] = FirstChoice(list)]
                /\ UNCHANGED <<now, chats, usedChats, pc>>
           ELSE /\ AutoIds(ChatIds, usedChats) # {}
                /\ \E id \in AutoIds(ChatIds, usedChats) :
                     /\ chats' = chats @@ (id :> NewRoomDoc(GeneralName))
                     /\ usedChats' = usedChats \cup {id}
                     /\ pc' = [pc EXCEPT ![c] =
                                 [Idle EXCEPT !.op = "default_add",
                                              !.chat = id,
                                              !.todo = {list[i] : i \in DOMAIN list}]]
                /\ now' = now + 1
                /\ UNCHANGED <<activeChatId, chatsView>>
  /\ UNCHANGED defaultFrame

\* the callback after its await: App.tsx returns; part_001
\* setActiveChatId(defaultRef.id); part_002 setChats([general, ...arr]) and
\* setCurrentChatId(general.id)
DefaultAdded(c) ==
  /\ pc[c].op = "default_add"
  /\ pc' = [pc EXCEPT ![c] = Idle]
  /\ activeChatId' =
       IF build = "App" THEN activeChatId
       ELSE [activeChatId EXCEPT ![c] = pc[c].chat]
  /\ chatsView' =
       IF build = "P2"
       THEN [chatsView EXCEPT ![c] =
               <<pc[c].chat>> \o
               OrderBy(pc[c].todo, [id \in pc[c].todo |-> chats[id].createdAt])]
       ELSE chatsView
  /\ UNCHANGED <<now, chats, usedChats, session>>
  /\ UNCHANGED defaultFrame

\* handleCreateChat of App.tsx: "if (!name) return", addDoc with name.trim(),
\* setActiveChatId(docRef.id)
CreateOtherRoom(c, name) ==
  /\ pc[c] = Idle
  /\ session[c].on
  /\ AutoIds(ChatIds, usedChats) # {}
  /\ \E id \in AutoIds(ChatIds, usedChats) :
       /\ chats' = chats @@ (id :> NewRoomDoc(Trim(name)))
       /\ usedChats' = usedChats \cup {id}
       /\ activeChatId' = [activeChatId EXCEPT ![c] = id]
  /\ now' = now + 1
  /\ UNCHANGED <<chatsView, pc, session>>
  /\ UNCHANGED defaultFrame

NextDefault ==
  \E c \in Clients :
    \/ SignInClient(c)
    \/ ServerSends(c)
    \/ DirectoryCallback(c)
    \/ DefaultAdded(c)
    \/ \E name \in OtherNames : CreateOtherRoom(c, name)

SpecDefault == InitDefault /\ [][NextDefault]_vars

\* room creation with every kind of answer to window.prompt: cancelled or
\* empty, blank, a name
TypedTitles == {<<>>, <<" ">>, <<"G">>}

NextCreate ==
  \/ OnChatsSnapshot
  \/ \E c \in Clients :
       \/ \E r \in ChatIds : SelectChat(c, r)
       \/ \E title \in TypedTitles : handleCreateChat(c, title)
       \/ CreateChatDone(c)

SpecCreate == Init /\ [][NextCreate]_vars

\* ------------------------------------------------------- notifications
\* The session of one signed-in user at a client of src/src/App.tsx ("App"),
\* src/unnamed/part_001 ("P1") or src/unnamed/part_002 ("P2").  The rooms
\* are there from the start; messages come from the user and from another
\* user; Notification.permission is "granted".
Notifiers == {"App", "P1", "P2"}

observer == "c1"

Authors == {"U1", "U2"}

\* what the notification versions leave alone
handlerVars == <<build, chats, usedChats, chatsView, chatsDirty,
                 messagesDirty, pc, nAppend, nDelete, lastCall, formVars,
                 authVars>>

\* App: query(collectionGroup(db, "messages"), orderBy("createdAt", "desc"),
\* limit(1)), as the ids of snap.docs
LastMessageQuery ==
  IF DOMAIN messages = {} THEN <<>>
  ELSE <<MaxBy(DOMAIN messages, MsgCreatedAt)>>

\* the ids the query of a listener on room r holds: the latest message of
\* all rooms for App, the messages of room r by createdAt for P1 and P2
ListenerQuery(r) ==
  IF build = "App" THEN LastMessageQuery
  ELSE OrderBy(MsgsOf(r), MsgCreatedAt)

\* the listener an effect run creates; App's listener is not tied to a room
NewListener(r) ==
  [open |-> TRUE, room |-> IF build = "App" THEN NoChat ELSE r,
   first |-> TRUE, last |-> <<>>]

\* signed in, no room selected yet: App's global listener is there already
InitNotify ==
  /\ build \in Notifiers
  /\ hidden = FALSE
  /\ lastNotifiedId = 0
  /\ alerts = [m \in MsgIds |-> 0]
  /\ listener = IF build = "App" THEN NewListener(NoChat) ELSE NoListener
  /\ lastDelivery = NoDelivery
  /\ signedIn = TRUE
  /\ subs = <<>>
  /\ lastEvent = NoEvent
  /\ users = NewUsers
  /\ newMessage = <<>>
  /\ session = [c \in Clients |-> NoSession]
  /\ now = 1
  /\ chats = <<>>
  /\ messages = <<>>
  /\ usedChats = {}
  /\ usedMsgs = {}
  /\ activeChatId = [c \in Clients |-> NoChat]
  /\ chatsView = [c \in Clients |-> <<>>]
  /\ chatsDirty = FALSE
  /\ messagesView = [c \in Clients |-> <<>>]
  /\ messagesDirty = FALSE
  /\ pc = [c \in Clients |-> Idle]
  /\ nAppend = [r \in ChatIds |-> 0]
  /\ nDelete = [r \in ChatIds |-> 0]
  /\ lastCall = NoCall

\* a send of user u to room r has reached the store; the session's own user
\* sends to the room that is open, from the tab in the foreground
Post(u, r) ==
  /\ u = Uid(observer) => (r = activeChatId[observer] /\ ~hidden)
  /\ \E id \in AutoIds(MsgIds, usedMsgs) :
       /\ messages' = messages @@
            (id :> [chatId |-> r, text |-> <<"h">>, fileName |-> <<>>,
                    createdAt |-> now, userId |-> u])
       /\ usedMsgs' = usedMsgs \cup {id}
  /\ now' = now + 1
  /\ UNCHANGED <<handlerVars, observerVars, activeChatId, messagesView>>

\* the user opens room r in the foreground tab: the effects that depend on
\* the active chat run again, each closing its listener and creating a new
\* one
OpenRoom(r) ==
  /\ ~hidden
  /\ r # activeChatId[observer]
  /\ activeChatId' = [activeChatId EXCEPT ![observer] = r]
  /\ listener' = NewListener(r)
  /\ UNCHANGED <<handlerVars, now, messages, usedMsgs, messagesView, hidden,
                 lastNotifiedId, alerts, lastDelivery, watchVars>>

\* the tab goes to the background or comes back
ToggleHidden ==
  /\ hidden' = ~hidden
  /\ UNCHANGED <<handlerVars, now, messages, usedMsgs, activeChatId,
                 messagesView, lastNotifiedId, alerts, listener, lastDelivery,
                 watchVars>>

\* no message counts as the user's own
NeverOwn(id) == FALSE

\* data.userId === firebaseUser.uid
IsOwn(id) == messages[id].userId = Uid(observer)

\* no message counts as notified already
NeverNotified(id) == FALSE

\* lastNotifiedMessageIdRef.current === id
AlreadyNotified(id) == id = lastNotifiedId

\* App, the callback on snapshot ids: the messages it raises a Notification
\* for
AlertsApp(ids) ==
  IF ids = <<>> THEN {}
  ELSE LET id == ids[1]
       IN IF \/ IsOwn(id)
             \/ AlreadyNotified(id)
             \/ ~hidden /\ messages[id].chatId = activeChatId[observer]
          THEN {} ELSE {id}

\* P1, the effect on [messages] after setMessages(arr)
AlertsP1(ids) ==
  IF ids = <<>> THEN {}
  ELSE LET last == ids[Len(ids)]
       IN IF IsOwn(last) \/ AlreadyNotified(last) THEN {} ELSE {last}

\* P2, snap.docChanges() of type "added": the documents of the snapshot
\* that the listener's previous snapshot did not hold
AlertsP2(ids) ==
  {id \in ViewIds(ids) \ ViewIds(listener.last) : hidden /\ ~IsOwn(id)}

Alerts(ids) ==
  CASE build = "App" -> AlertsApp(ids)
    [] build = "P1" -> AlertsP1(ids)
    [] OTHER -> AlertsP2(ids)

\* the listener's callback runs on the snapshot ids
Callback(kind, ids) ==
  LET alerted == Alerts(ids)
  IN /\ \A m \in alerted : alerts[m] < MaxAlerts
     /\ alerts' = [m \in MsgIds |->
                     IF m \in alerted THEN alerts[m] + 1 ELSE alerts[m]]
     /\ lastNotifiedId' =
          IF build = "P2" \/ alerted = {} THEN lastNotifiedId
          ELSE CHOOSE m \in alerted : TRUE
     /\ messagesView' =
          IF build = "App" THEN messagesView
          ELSE [messagesView EXCEPT ![observer] =
                  [i \in 1..Len(ids) |-> MsgItem(ids[i])]]
     /\ listener' = [listener EXCEPT !.first = FALSE, !.last = ids]
     /\ lastDelivery' =
          [kind |-> kind, alerted |-> alerted,
           before |-> IF kind = "dup"
                      THEN lastDelivery.alerted \cup lastDelivery.before
                      ELSE {}]
     /\ UNCHANGED <<handlerVars, now, messages, usedMsgs, activeChatId,
                    hidden, watchVars>>

\* the first snapshot of a listener, or a snapshot after its query's result
\* has changed
OnSnapshot ==
  /\ listener.open
  /\ listener.first \/ ListenerQuery(listener.room) # listener.last
  /\ Callback(IF listener.first THEN "first" ELSE "live",
              ListenerQuery(listener.room))

\* the feed delivers the snapshot it delivered last once more
DuplicateSnapshot ==
  /\ listener.open
  /\ ~listener.first
  /\ ListenerQuery(listener.room) = listener.last
  /\ Callback("dup", listener.last)

NextNotify ==
  \/ \E u \in Authors : \E r \in ChatIds : Post(u, r)
  \/ \E r \in ChatIds : OpenRoom(r)
  \/ ToggleHidden
  \/ OnSnapshot
  \/ DuplicateSnapshot

SpecNotify == InitNotify /\ [][NextNotify]_vars

\* --------------------------------------------------------- subscriptions
\* The onSnapshot listeners of one session: src/unnamed/part_001 ("P1"),
\* the first ("A") and the second ("B") App.tsx of src/unnamed/part_003.
\* The rooms are there from the start; messages come from another user.
Watchers == {"P1", "A", "B"}

\* what the listeners leave alone
sessionVars == <<build, usedChats, chatsDirty, messagesDirty, nAppend,
                 nDelete, lastCall, hidden, lastNotifiedId, alerts, listener,
                 lastDelivery, formVars, authVars>>

\* onSnapshot(...): a listener; held when the caller keeps the unsubscribe
\* function that onSnapshot returns
NewSub(target, room, held) ==
  [target |-> target, room |-> room, state |-> "open", held |-> held,
   first |-> TRUE, last |-> <<>>, told |-> FALSE]

InitWatch ==
  /\ build \in Watchers
  /\ hidden = FALSE
  /\ lastNotifiedId = 0
  /\ alerts = [m \in MsgIds |-> 0]
  /\ listener = NoListener
  /\ lastDelivery = NoDelivery
  /\ signedIn = FALSE
  /\ subs = <<>>
  /\ lastEvent = NoEvent
  /\ users = NewUsers
  /\ newMessage = <<>>
  /\ session = [c \in Clients |-> NoSession]
  /\ now = MaxRooms + 1
  /\ chats = [r \in ChatIds |->
                [title |-> <<"G">>, createdAt |-> r,
                 lastMessageAt |-> IF build = "B" THEN NoTime ELSE r,
                 messageCount |-> 0]]
  /\ messages = <<>>
  /\ usedChats = ChatIds
  /\ usedMsgs = {}
  /\ activeChatId = [c \in Clients |-> NoChat]
  /\ chatsView = [c \in Clients |-> <<>>]
  /\ chatsDirty = FALSE
  /\ messagesView = [c \in Clients |-> <<>>]
  /\ messagesDirty = FALSE
  /\ pc = [c \in Clients |-> Idle]
  /\ nAppend = [r \in ChatIds |-> 0]
  /\ nDelete = [r \in ChatIds |-> 0]
  /\ lastCall = NoCall

ChatCreatedAt == [id \in DOMAIN chats |-> chats[id].createdAt]

\* P1: query(chatsRef, orderBy("createdAt", "asc")); A, B: ChatsQuery
DirectoryQuery ==
  IF build = "P1" THEN OrderBy(DOMAIN chats, ChatCreatedAt) ELSE ChatsQuery

\* the ids of the documents the query of listener sub holds
QueryIds(sub) ==
  CASE sub.target = "messages" ->
         LET list == MessagesQuery(sub.room)
         IN [i \in 1..Len(list) |-> list[i].id]
    [] sub.target = "chats" -> DirectoryQuery
    [] OTHER -> <<>>

\* "return () => unsub()": an unsubscribed listener gets no more callbacks
\* and is not kept.
\* a listener that stays when the messages effect cleans up
NotHeldMessages(sub) == ~(sub.held /\ sub.target = "messages")

\* a listener that stays when every effect cleans up
NotHeld(sub) == ~sub.held

\* the effect on [activeChatId] runs again: the cleanup of its last run,
\* "return () => unsub()", then onSnapshot on the messages of room a when
\* there is one
Reopen(ss, a) ==
  LET cleaned == SelectSeq(ss, NotHeldMessages)
  IN IF a = NoChat THEN cleaned
     ELSE Append(cleaned, NewSub("messages", a, TRUE))

\* the listeners after the step, where ss are the listeners apart from the
\* effect on [activeChatId]: the effect runs when activeChatId has changed
Resubscribe(ss) ==
  /\ (/\ activeChatId'[observer] # activeChatId[observer]
      /\ activeChatId'[observer] # NoChat) => Len(ss) < MaxSubs
  /\ subs' = IF activeChatId'[observer] = activeChatId[observer] THEN ss
             ELSE Reopen(ss, activeChatId'[observer])

\* a list that grows by what is delivered
AppendMessages(list) == messagesView[observer] \o list

\* setMessages(list): the list takes the place of the one before
SetMessages(list) == list

\* another user's send to room r has reached the store: the message
\* document and the room's lastMessageAt and messageCount
RemoteSend(r) ==
  /\ r \in DOMAIN chats
  /\ \E id \in AutoIds(MsgIds, usedMsgs) :
       /\ messages' = messages @@
            (id :> [chatId |-> r, text |-> <<"h">>, fileName |-> <<>>,
                    createdAt |-> now, userId |-> "U2"])
       /\ usedMsgs' = usedMsgs \cup {id}
  /\ chats' = [chats EXCEPT ![r] = [@ EXCEPT !.lastMessageAt = now,
                                            !.messageCount = @ + 1]]
  /\ now' = now + 1
  /\ lastEvent' = NoEvent
  /\ UNCHANGED <<sessionVars, activeChatId, chatsView, messagesView, pc,
                 signedIn, subs>>

\* P1: onAuthStateChanged calls back with the user and creates listeners on
\* the profile, the users and the chats, keeping none of the unsubscribe
\* functions.  A, B: the component is mounted with firebaseUser; the chats
\* effect creates its listener; the messages effect finds no active chat
SignIn ==
  /\ ~signedIn
  /\ signedIn' = TRUE
  /\ IF build = "P1"
     THEN /\ Len(subs) + 3 <= MaxSubs
          /\ subs' = subs \o <<NewSub("profile", NoChat, FALSE),
                               NewSub("users", NoChat, FALSE),
                               NewSub("chats", NoChat, FALSE)>>
     ELSE /\ Len(subs) < MaxSubs
          /\ subs' = Append(subs, NewSub("chats", NoChat, TRUE))
  /\ lastEvent' = NoEvent
  /\ UNCHANGED <<sessionVars, now, chats, messages, usedMsgs, activeChatId,
                 chatsView, messagesView, pc>>

\* signOut(auth).  P1: onAuthStateChanged calls back with null: setChats([]),
\* setMessages([]), setActiveChatId(null), and the messages effect cleans
\* up.  A, B: the gate unmounts the component and every effect cleans up
SignOut ==
  /\ signedIn
  /\ pc[observer] = Idle
  /\ signedIn' = FALSE
  /\ activeChatId' = [activeChatId EXCEPT ![observer] = NoChat]
  /\ chatsView' = [chatsView EXCEPT ![observer] = <<>>]
  /\ messagesView' = [messagesView EXCEPT ![observer] = <<>>]
  /\ subs' = SelectSeq(subs, NotHeld)
  /\ lastEvent' = NoEvent
  /\ UNCHANGED <<sessionVars, now, chats, messages, usedMsgs, pc>>

\* click on a chat of the list: setActiveChatId(chat.id)
ClickChat(r) ==
  /\ signedIn
  /\ r \in ViewIds(chatsView[observer])
  /\ r # activeChatId[observer]
  /\ SetActive(observer, r)
  /\ Resubscribe(subs)
  /\ lastEvent' = NoEvent
  /\ UNCHANGED <<sessionVars, now, chats, messages, usedMsgs, chatsView, pc,
                 signedIn>>

\* the snapshot callback of listener i runs on the ids its query holds
\*   messages, held: setMessages(list)
\*   messages, not held (B, handleDeleteChat): resolve(s), which settles
\*     the promise the first time
\*   chats: setChats(list) and the selection of the first chat
\*   profile, users: setProfile, setAllUsers
OnSnapshotOf(i, kind) ==
  LET sub == subs[i]
      ids == QueryIds(sub)
      heard == [subs EXCEPT ![i] = [@ EXCEPT !.first = FALSE, !.last = ids]]
  IN /\ lastEvent' = [kind |-> kind, target |-> sub.target,
                       held |-> sub.held]
     /\ CASE sub.target = "messages" /\ sub.held ->
               /\ messagesView' = [messagesView EXCEPT ![observer] =
                                     SetMessages(MessagesQuery(sub.room))]
               /\ subs' = heard
               /\ UNCHANGED <<activeChatId, chatsView, pc>>
          [] sub.target = "messages" /\ ~sub.held ->
               /\ pc' = IF pc[observer].op = "dc_snap" /\ sub.first
                        THEN [pc EXCEPT ![observer] =
                                [@ EXCEPT !.op = "dc_msgs",
                                          !.todo = ViewIds(ids)]]
                        ELSE pc
               /\ subs' = heard
               /\ UNCHANGED <<activeChatId, chatsView, messagesView>>
          [] sub.target = "chats" ->
               /\ chatsView' = [chatsView EXCEPT ![observer] = ids]
               /\ activeChatId' = [activeChatId EXCEPT ![observer] =
                                     ActiveAfterChats(observer, ids)]
               /\ Resubscribe(heard)
               /\ UNCHANGED <<messagesView, pc>>
          [] OTHER ->
               /\ subs' = heard
               /\ UNCHANGED <<activeChatId, chatsView, messagesView, pc>>
     /\ UNCHANGED <<sessionVars, now, chats, messages, usedMsgs, signedIn>>

\* the first snapshot of listener i, or a snapshot after its query's result
\* has changed
SnapshotTo(i) ==
  /\ subs[i].state = "open"
  /\ subs[i].first \/ QueryIds(subs[i]) # subs[i].last
  /\ OnSnapshotOf(i, "snapshot")

\* the feed delivers to listener i the snapshot it delivered last once more
SnapshotAgain(i) ==
  /\ subs[i].state = "open"
  /\ ~subs[i].first
  /\ QueryIds(subs[i]) = subs[i].last
  /\ OnSnapshotOf(i, "again")

\* the listener was given a second callback for errors
HasErrorCallback(sub) == build = "B" /\ sub.target = "messages"

\* the feed of listener i fails: the listener gets no more snapshots.  B's
\* messages effect logs and setMessages([]); B's handleDeleteChat rejects,
\* and its catch logs and alerts; the other listeners have no callback for
\* it
FeedFails(i) ==
  /\ subs[i].state = "open"
  /\ Cardinality({j \in DOMAIN subs : subs[j].state = "failed"})
       < MaxFailures
  /\ subs' = [subs EXCEPT ![i] = [@ EXCEPT !.state = "failed",
                                           !.told = HasErrorCallback(subs[i])]]
  /\ lastEvent' = [kind |-> "error", target |-> subs[i].target,
                    held |-> subs[i].held]
  /\ messagesView' =
       IF HasErrorCallback(subs[i]) /\ subs[i].held
       THEN [messagesView EXCEPT ![observer] = <<>>]
       ELSE messagesView
  /\ pc' = IF /\ HasErrorCallback(subs[i])
              /\ ~subs[i].held
              /\ pc[observer].op = "dc_snap"
              /\ subs[i].first
           THEN [pc EXCEPT ![observer] = Idle]
           ELSE pc
  /\ UNCHANGED <<sessionVars, now, chats, messages, usedMsgs, activeChatId,
                 chatsView, signedIn>>

\* B, handleDeleteChat(r) of a chat of the list that is still in the store,
\* up to its second await: deleteDoc of the chat, then onSnapshot inside a
\* Promise, whose unsubscribe function is dropped
DeleteChatListen(r) ==
  /\ build = "B"
  /\ signedIn
  /\ pc[observer] = Idle
  /\ r \in ViewIds(chatsView[observer]) \cap DOMAIN chats
  /\ Len(subs) < MaxSubs
  /\ chats' = Without(chats, r)
  /\ subs' = Append(subs, NewSub("messages", r, FALSE))
  /\ pc' = [pc EXCEPT ![observer] =
              [Idle EXCEPT !.op = "dc_snap", !.chat = r,
                           !.act = activeChatId[observer]]]
  /\ lastEvent' = NoEvent
  /\ UNCHANGED <<sessionVars, now, messages, usedMsgs, activeChatId,
                 chatsView, messagesView, signedIn>>

\* B, handleDeleteChat: one of the deleteDoc of Promise.all
DeleteChatRemove(id) ==
  /\ pc[observer].op = "dc_msgs"
  /\ id \in pc[observer].todo
  /\ messages' = Without(messages, id)
  /\ pc' = [pc EXCEPT ![observer] = [@ EXCEPT !.todo = @ \ {id}]]
  /\ lastEvent' = NoEvent
  /\ UNCHANGED <<sessionVars, now, chats, usedMsgs, activeChatId, chatsView,
                 messagesView, signedIn, subs>>

\* B, handleDeleteChat after Promise.all: "if (activeChatId === chatId)
\* { setActiveChatId(null); setMessages([]); }"
DeleteChatReturn ==
  /\ pc[observer].op = "dc_msgs"
  /\ pc[observer].todo = {}
  /\ IF pc[observer].act = pc[observer].chat
     THEN SetActive(observer, NoChat)
     ELSE UNCHANGED <<activeChatId, messagesView>>
  /\ Resubscribe(subs)
  /\ pc' = [pc EXCEPT ![observer] = Idle]
  /\ lastEvent' = NoEvent
  /\ UNCHANGED <<sessionVars, now, chats, messages, usedMsgs, chatsView,
                 signedIn>>

NextWatch ==
  \/ \E r \in ChatIds : RemoteSend(r)
  \/ SignIn
  \/ SignOut
  \/ \E r \in ChatIds : ClickChat(r)
  \/ \E i \in DOMAIN subs : SnapshotTo(i)
  \/ \E i \in DOMAIN subs : SnapshotAgain(i)
  \/ \E i \in DOMAIN subs : FeedFails(i)
  \/ \E r \in ChatIds : DeleteChatListen(r)
  \/ \E id \in MsgIds : DeleteChatRemove(id)
  \/ DeleteChatReturn

SpecWatch == InitWatch /\ [][NextWatch]_vars

\* ----------------------------------------------------------- properties
\* the send that added message document m has not yet got past its updateDoc
SendInFlight(m) ==
  \E c \in Clients : pc[c].op \in {"send_get", "send_upd"} /\ pc[c].msg = m

\* the latest createdAt among the messages of room r, which has some
MaxCreatedAt(r) ==
  CHOOSE t \in {messages[m].createdAt : m \in MsgsOf(r)} :
    \A m \in MsgsOf(r) : messages[m].createdAt <= t

\* s has no character other than white space
Blank(s) == \A i \in 1..Len(s) : s[i] = " "

\* C1: when the appends to a room, made by any number of clients at the
\* same time, have all completed and no message of the room was deleted,
\* the room's messageCount is the number of appends.
C1_ConcurrentAppendsCounted ==
  \A r \in DOMAIN chats :
    (AllIdle /\ nDelete[r] = 0) => chats[r].messageCount = nAppend[r]

\* C2: once the sends and deletes have completed, each room's messageCount
\* is the number of message documents of the room that exist.
C2_CountIsNumberOfMessages ==
  AllIdle =>
    \A r \in DOMAIN chats : chats[r].messageCount = Cardinality(MsgsOf(r))

CreatedLastMessageAt(r) ==
  IF build = "B" THEN NoTime ELSE chats[r].createdAt

C3_LastMessageAtState ==
  \A r \in DOMAIN chats :
    /\ nAppend[r] = 0 => chats[r].lastMessageAt = CreatedLastMessageAt(r)
    /\ \A m \in MsgsOf(r) :
         SendInFlight(m) \/ chats[r].lastMessageAt > messages[m].createdAt

C3_LastMessageAtStep ==
  \A r \in DOMAIN chats \cap DOMAIN chats' :
    /\ chats'[r].lastMessageAt >= chats[r].lastMessageAt
    /\ nDelete'[r] # nDelete[r] =>
         chats'[r].lastMessageAt = chats[r].lastMessageAt

HelloThenFile(r, m1, m2) ==
  /\ AllIdle
  /\ nAppend[r] = 2
  /\ nDelete[r] = 0
  /\ MsgsOf(r) = {m1, m2}
  /\ messages[m1].userId = "U1"
  /\ messages[m1].text # <<>>
  /\ messages[m2].userId = "U2"
  /\ messages[m2].fileName # <<>>
  /\ messages[m1].createdAt < messages[m2].createdAt

\* what C4 says of the counter and of the stream
CountAndStream(r, m1, m2) ==
  /\ chats[r].messageCount = 2
  /\ \A c \in Clients :
       (Synced /\ activeChatId[c] = r) =>
         messagesView[c] = <<MsgItem(m1), MsgItem(m2)>>

C5_DeleteDecrementsAtomically ==
  [][\A c \in Clients :
       (pc[c].op = "del_upd" /\ pc'[c] = Idle /\ pc[c].chat \in DOMAIN chats)
         => chats'[pc[c].chat].messageCount =
              Max(0, chats[pc[c].chat].messageCount - 1)]_vars

\* C6: a delete called by a user who is not the message's author leaves the
\* message in the store.
C6_OnlyAuthorDeletes ==
  (lastCall.op = "deleted" /\ lastCall.by # lastCall.author)
    => lastCall.msg \in DOMAIN messages

\* C7: once a message delete has completed, no delivered messages list
\* holds a deleted message, and the room's messageCount counts no deleted
\* message: it is at most the number of messages that exist.
C7_DeletedMessageGone ==
  /\ Synced =>
       \A c \in Clients : \A i \in 1..Len(messagesView[c]) :
         messagesView[c][i].id \in DOMAIN messages
  /\ \A r \in DOMAIN chats :
       (AllIdle /\ nDelete[r] > 0) =>
         chats[r].messageCount <= Cardinality(MsgsOf(r))

\* C8: no step adds a message document whose chatId names a room that does
\* not exist.
C8_AppendNeedsRoom ==
  [][\A id \in DOMAIN messages' \ DOMAIN messages :
       messages'[id].chatId \in DOMAIN chats]_vars

C10_DeletedRoomLogEmpty ==
  [][\A c \in Clients :
       (DeleteChatAwaited(c) /\ pc'[c] = Idle)
         => \A id \in DOMAIN messages' : messages'[id].chatId # pc[c].chat]_vars

\* C11: every messages list a client has been delivered is in non-decreasing
\* order of createdAt.
C11_StreamNonDecreasing ==
  \A c \in Clients : \A i \in 1..(Len(messagesView[c]) - 1) :
    messagesView[c][i].createdAt <= messagesView[c][i + 1].createdAt

\* C12: when the calls do not overlap, a message of one user that was
\* appended before a message of another user stands before it in every
\* messages list delivered.
C12_EarlierAppendFirst ==
  \A c \in Clients : \A i, j \in 1..Len(messagesView[c]) :
    (/\ messagesView[c][i].userId # messagesView[c][j].userId
     /\ messagesView[c][i].createdAt < messagesView[c][j].createdAt)
      => i < j

C14_OneAlertPerMessage == \A m \in MsgIds : alerts[m] <= 1

\* C15: the first snapshot of a listener raises no alert.
C15_FirstSnapshotSilent ==
  lastDelivery.kind = "first" => lastDelivery.alerted = {}

\* C16: a message of the session's own user never gets an alert and never
\* becomes the last-notified id.
C16_OwnMessageSilent ==
  \A m \in DOMAIN messages :
    messages[m].userId = Uid(observer) =>
      alerts[m] = 0 /\ lastNotifiedId # m

\* the callback has just run on a snapshot that ends with a message of the
\* session's own user, in a tab where alerts are not held back
C16_Witness ==
  /\ lastDelivery.kind \in {"first", "live"}
  /\ listener.last # <<>>
  /\ listener.last[Len(listener.last)] \in DOMAIN messages
  /\ messages[listener.last[Len(listener.last)]].userId = Uid(observer)
  /\ hidden

\* C17: no two listeners of the session that are open at the same time have
\* the same target (the directory, the messages of one room, the profile,
\* the users).
C17_OneLivePerTarget ==
  \A i, j \in DOMAIN subs :
    (/\ i < j
     /\ subs[i].state = "open"
     /\ subs[j].state = "open")
      => <<subs[i].target, subs[i].room>> # <<subs[j].target, subs[j].room>>

\* C18: when no room deletion is in flight, every listener a room deletion
\* created to enumerate the room's messages is closed; nothing holds its
\* unsubscribe function, so no later step can close it.
C18_DeletionListenerClosed ==
  pc[observer] = Idle =>
    \A i \in DOMAIN subs :
      (subs[i].target = "messages" /\ ~subs[i].held)
        => subs[i].state # "open"

\* C19: a listener on a room's messages whose feed has failed while the
\* messages list still shows messages has handed the failure to a callback
\* of the application.
C19_FeedFailureTold ==
  \A i \in DOMAIN subs :
    (/\ subs[i].target = "messages"
     /\ subs[i].state = "failed"
     /\ messagesView[observer] # <<>>) => subs[i].told

\* the ids of the messages list of the session, in order
ShownIds ==
  [k \in 1..Len(messagesView[observer]) |-> messagesView[observer][k].id]

\* C20: right after a snapshot has been delivered to the listener on the
\* active room's messages, for the first time or once more, the messages
\* list holds each id once and is the snapshot delivered.
C20_ListIsLastSnapshot ==
  (lastEvent.kind \in {"snapshot", "again"}
     /\ lastEvent.target = "messages" /\ lastEvent.held) =>
    /\ Cardinality(ViewIds(ShownIds)) = Len(ShownIds)
    /\ \E i \in DOMAIN subs :
         /\ subs[i].target = "messages"
         /\ subs[i].held
         /\ subs[i].last = ShownIds
         /\ messagesView[observer] = MessagesQuery(subs[i].room)

\* a snapshot that holds messages has been delivered once more to the
\* listener on the active room's messages
C20_Witness ==
  /\ lastEvent.kind = "again"
  /\ lastEvent.target = "messages"
  /\ lastEvent.held
  /\ messagesView[observer] # <<>>

\* a step hands a snapshot to the listener on the active room's messages
MessagesDelivered ==
  /\ lastEvent'.kind \in {"snapshot", "again"}
  /\ lastEvent'.target = "messages"
  /\ lastEvent'.held

ListedBefore(a, b) ==
  \/ chats[a].lastMessageAt > chats[b].lastMessageAt
  \/ /\ chats[a].lastMessageAt = chats[b].lastMessageAt
     /\ chats[a].createdAt >= chats[b].createdAt

\* C22: once the chats snapshot has been delivered, every client's chat
\* list holds every room of the store, ordered by lastMessageAt descending,
\* ties by createdAt descending.
C22_DirectoryOrdered ==
  ~chatsDirty =>
    \A c \in Clients :
      /\ ViewIds(chatsView[c]) = DOMAIN chats
      /\ \A i, j \in 1..Len(chatsView[c]) :
           i < j => ListedBefore(chatsView[c][i], chatsView[c][j])

\* C23: a room document that a step adds to the store has messageCount 0
\* and lastMessageAt equal to its createdAt.
C23_NewRoomFields ==
  [][\A r \in DOMAIN chats' \ DOMAIN chats :
       /\ chats'[r].messageCount = 0
       /\ chats'[r].lastMessageAt = chats'[r].createdAt]_vars

\* C24: no room of the store has a title that is empty after trimming.
C24_NoBlankTitle ==
  \A r \in DOMAIN chats : Trim(chats[r].title) # <<>>

\* C25: a message document that a step neither adds nor removes is the same
\* document after the step: chatId, userId, createdAt and every other field.
C25_MessagesImmutable ==
  [][\A id \in DOMAIN messages \cap DOMAIN messages' :
       messages'[id] = messages[id]]_vars

\* a message is in the store after its author's profile was edited, its
\* room's counter was written and another message of the room was deleted
C25_Witness ==
  \E id \in DOMAIN messages :
    /\ users[messages[id].userId] =
         [name |-> <<"m">>, avatarUrl |-> <<"u">>]
    /\ messages[id].chatId \in DOMAIN chats
    /\ chats[messages[id].chatId].messageCount > 0
    /\ nDelete[messages[id].chatId] > 0

\* how many times the token t occurs in the draft s
Occurrences(s, t) ==
  Cardinality({i \in 0..(Len(s) - Len(t)) : SubSeq(s, i + 1, i + Len(t)) = t})

\* C26: a click on a user's name leaves a draft that already holds that
\* user's mention token unchanged, and adds the token exactly once to a draft
\* that does not hold it.
C26_MentionIdempotent ==
  [][lastEvent'.kind = "mention" =>
       LET token == <<"@", lastEvent'.target, " ">>
       IN IF Occurrences(newMessage, token) > 0
          THEN newMessage' = newMessage
          ELSE Occurrences(newMessage', token) = 1]_vars

\* C27: the directory never holds more than one general room, however many
\* clients sign in and however the directory is delivered to them.
C27_OneDefaultRoom ==
  Cardinality({r \in DOMAIN chats : chats[r].title = <<"G">>}) <= 1

\* C28: a delivery of the directory leaves the active room of a client that
\* has one as it is; only a client without an active room gets the first
\* listed room.
C28_DeliveryKeepsActive ==
  [][(chatsDirty /\ ~chatsDirty') =>
       \A c \in Clients :
         activeChatId[c] # NoChat => activeChatId'[c] = activeChatId[c]]_vars

\* C29: once the directory view has caught up with the store and no handler
\* is in flight, the active room of every client is null or a room of the
\* directory.
C29_ActiveRoomExists ==
  (~chatsDirty /\ AllIdle) =>
    \A c \in Clients : activeChatId[c] \in {NoChat} \cup DOMAIN chats

\* C30: every message in the list shown to a client belongs to the client's
\* active room, and the list is empty when no room is active.
C30_ListOfActiveRoom ==
  \A c \in Clients :
    \A i \in DOMAIN messagesView[c] :
      /\ activeChatId[c] # NoChat
      /\ messagesView[c][i].chatId = activeChatId[c]

====
